---- MODULE Spec2Model ----
(***************************************************************************)
(* Stock scanner bot (src/main.py): the tiered polling scheduler, the     *)
(* market gate, the rule evaluators with their dedup tables and the       *)
(* watchlist.                                                              *)
(*                                                                         *)
(* Units.  A timestamp is a number of seconds since Monday 00:00:00 New   *)
(* York time of the modelled week.  A percentage is in tenths of a        *)
(* percent (5.0% is 50).  A bid is in thousandths of a dollar             *)
(* (199999.00 is 199999000).  An optional JSON field is the empty         *)
(* sequence when the key is absent and <<v>> when it holds v.             *)
(***************************************************************************)
EXTENDS Integers, Sequences, FiniteSets, TLC

\* ------------------------------------------------------------------ bounds
\* Loop iterations explored by the scheduler specification.
MaxTicks == 4
\* Records in a fetched batch.
MaxBatch == 2

\* ------------------------------------------------------- program constants
MAIN_SCAN_INTERVAL_SECONDS == 10
TOP10_INTERVAL_SECONDS == 300
UNUSUAL_OPTIONS_INTERVAL_SECONDS == 120
WATCHLIST_INTERVAL_SECONDS == 30
MARKET_STATUS_INTERVAL_SECONDS == 1800
DARK_POOL_INTERVAL_SECONDS == 120
GAPUP_INTERVAL_SECONDS == 120

VOLUME_SPIKE_RATIO == 2
PCT_CHANGE_THRESHOLD == 50
LARGE_SALE_VOLUME_DELTA == 10000
UNUSUAL_OPTIONS_VOL_OI_MIN == 30
UNUSUAL_OPTIONS_VOLUME_MIN == 3000
GAP_UP_THRESHOLD == 50
PREMARKET_GAP_THRESHOLD == 30
AFTER_HOURS_MOVE_THRESHOLD == 30

\* datetime.min: every last-run stamp starts further in the past than any
\* interval (the value is kept inside TLC's integers).
DatetimeMin == -2000000000

\* ------------------------------------------------------------ JSON values
Absent == <<>>
Has(x) == x # <<>>
\* Python truthiness of an optional number: None and 0 are falsy.
Falsy(x) == x = <<>> \/ x[1] = 0
\* dict.get(key, d) or d
OrDefault(x, d) == IF Falsy(x) THEN d ELSE x[1]
Abs(n) == IF n < 0 THEN -n ELSE n
Min(a, b) == IF a < b THEN a ELSE b

Symbols == {"AAA", "BBB"}

Tasks == {"main", "top10", "unusual", "watchlist", "status", "darkpool", "gapup"}

\* The one-shot rules of the main scan, by the kind of alert they send.
Rules == {"VOLUME_SPIKE", "BID_EXACT", "BID_HIGH", "UNUSUAL", "HALT"}

\* A notification handed to send_telegram_message: an alert about one symbol
\* (list empty) or a digest listing lines (sym "-").
Alert(kind, sym) == [kind |-> kind, sym |-> sym, list |-> <<>>]
\* An alert whose text carries figures (the volume-spike alert prints the
\* volume and the average it compared).
AlertWith(kind, sym, list) == [kind |-> kind, sym |-> sym, list |-> list]
Digest(kind, list) == [kind |-> kind, sym |-> "-", list |-> list]

\* --------------------------------------------------------------------- state
VARIABLES
    \* the environment: MBOUM_API_KEY, TELEGRAM_BOT_TOKEN, TELEGRAM_CHAT_ID
    env,
    \* the scheduling loop
    now,                \* now_est of the current iteration
    ticks,              \* iterations started
    pc,                 \* where the loop stands
    last_main_scan, last_top10, last_unusual, last_watchlist,
    last_market_status, last_dark_pool, last_gapup,
    \* dedup tables (the symbols mapped to True), watchlist, volumes
    last_volume_spike_alert, last_bid_exact_alert, last_bid_highvalue_alert,
    last_unusual_activity_alert, last_halt_alert,
    watchlist,          \* symbol -> reason, "none" when not a key
    last_watchlist_volume,
    \* what the last step did
    ran,                \* the task it ran, "none" when it ran none
    fetched,            \* the endpoints it requested
    failed,             \* those of them that returned no data
    input,              \* the records its first fetch returned
    outbox,             \* the messages it handed to send_telegram_message
    lost,               \* the positions in outbox of the posts that failed
    \* history
    ranInTick,          \* the tasks run in the current iteration
    fired,              \* alerts sent so far per kind and symbol, counted up to 2
    spikeAt,            \* <<vol, avg3m>> of a symbol's volume-spike alert
    seenBid,            \* symbols an earlier scan saw with the exact bid and size
    seenBidGated,       \* ... and a change of at least 5%
    mainTrack, mainGain,\* progress of a symbol's scans along GainScenario, gain alerts
    reported,           \* contracts listed by an options notification so far
    relisted,           \* contracts the last one listed that were listed before
    gapReported,        \* names listed by a gap-up digest so far
    gapRelisted         \* names the last digest listed that were listed before

SchedVars == <<now, ticks, pc, last_main_scan, last_top10, last_unusual, last_watchlist,
               last_market_status, last_dark_pool, last_gapup, ranInTick>>
DedupVars == <<last_volume_spike_alert, last_bid_exact_alert, last_bid_highvalue_alert,
               last_unusual_activity_alert, last_halt_alert>>
DataVars == <<DedupVars, watchlist, last_watchlist_volume>>
StepVars == <<ran, fetched, failed, input, outbox, lost>>
MainHist == <<fired, spikeAt, seenBid, seenBidGated, mainTrack, mainGain>>
OptHist == <<reported, relisted>>
GapHist == <<gapReported, gapRelisted>>
vars == <<env, SchedVars, DataVars, StepVars, MainHist, OptHist, GapHist>>

\* --------------------------------------------------------- market calendar
\* datetime.weekday(): Monday is 0 and Sunday is 6.
Weekday(t) == (t \div 86400) % 7
SecondOfDay(t) == t % 86400

is_trading_day(now_est) ==
    IF Weekday(now_est) >= 5 THEN FALSE ELSE TRUE

\* Variants of the window test: without the closing time, and with the
\* closing minute left out.
is_within_trading_window_noend(now_est) ==
    LET current == (SecondOfDay(now_est) \div 3600) * 60
                   + (SecondOfDay(now_est) % 3600) \div 60
    IN  6 * 60 <= current

is_within_trading_window_strict(now_est) ==
    LET current == (SecondOfDay(now_est) \div 3600) * 60
                   + (SecondOfDay(now_est) % 3600) \div 60
    IN  6 * 60 <= current /\ current < 18 * 60

is_within_trading_window(now_est) ==
    LET hour == SecondOfDay(now_est) \div 3600
        minute == (SecondOfDay(now_est) % 3600) \div 60
        start == 6 * 60
        end == 18 * 60
        current == hour * 60 + minute
    IN  start <= current /\ current <= end

\* The gate of the scheduling loop and of the status message.
MarketOpen(now_est) == is_trading_day(now_est) /\ is_within_trading_window(now_est)

\* ---------------------------------------------------------- rule evaluators
\* Each evaluator takes the tables it reads and returns the message it hands
\* back (<<>> for None) with the tables as it leaves them.

\* Variant: the alert is sent again whenever the ratio is at least 2.0 and
\* the figures differ from those of the last alert.
check_volume_spike_value(sym, stock, spike) ==
    LET vol == stock.vol
        avg3m == stock.avg3m
    IN  IF Falsy(vol) \/ Falsy(avg3m) \/ avg3m[1] <= 0
        THEN [msg |-> <<>>, spike |-> spike]
        ELSE IF vol[1] >= VOLUME_SPIKE_RATIO * avg3m[1]
                /\ (sym \notin spike \/ spikeAt[sym] # <<vol[1], avg3m[1]>>)
             THEN [msg |-> <<AlertWith("VOLUME_SPIKE", sym, <<<<vol[1], avg3m[1]>>>>)>>,
                   spike |-> spike \cup {sym}]
             ELSE [msg |-> <<>>, spike |-> spike]

\* Variant: the guard is that of the sentiment score: a missing or zero
\* average counts as 1 and a missing volume as 0.
check_volume_spike_or1(sym, stock, spike) ==
    LET vol == OrDefault(stock.vol, 0)
        avg3m == OrDefault(stock.avg3m, 1)
    IN  IF avg3m > 0 /\ vol >= VOLUME_SPIKE_RATIO * avg3m /\ sym \notin spike
        THEN [msg |-> <<AlertWith("VOLUME_SPIKE", sym, <<<<vol, avg3m>>>>)>>,
              spike |-> spike \cup {sym}]
        ELSE [msg |-> <<>>, spike |-> spike]

check_volume_spike(sym, stock, spike) ==
    LET vol == stock.vol
        avg3m == stock.avg3m
    IN  IF Falsy(vol) \/ Falsy(avg3m) \/ avg3m[1] <= 0
        THEN [msg |-> <<>>, spike |-> spike]
        ELSE IF vol[1] >= VOLUME_SPIKE_RATIO * avg3m[1] /\ sym \notin spike
             THEN [msg |-> <<AlertWith("VOLUME_SPIKE", sym, <<<<vol[1], avg3m[1]>>>>)>>,
                   spike |-> spike \cup {sym}]
             ELSE [msg |-> <<>>, spike |-> spike]

\* Variant: the exact pattern does not consult its dedup table.
check_bid_patterns_nodedup(sym, stock, exact, high) ==
    LET bid == stock.bid
        bid_size == stock.bidSize
    IN  IF bid = Absent \/ bid_size = Absent
        THEN [msgs |-> <<>>, exact |-> exact, high |-> high]
        ELSE LET p1 == Abs(bid[1] - 199999000) < 10 /\ bid_size[1] = 100
                 p2 == bid[1] >= 2000000 /\ bid_size[1] >= 20 /\ sym \notin high
             IN  [msgs |-> (IF p1 THEN <<Alert("BID_EXACT", sym)>> ELSE <<>>)
                           \o (IF p2 THEN <<Alert("BID_HIGH", sym)>> ELSE <<>>),
                  exact |-> IF p1 THEN exact \cup {sym} ELSE exact,
                  high |-> IF p2 THEN high \cup {sym} ELSE high]

check_bid_patterns(sym, stock, exact, high) ==
    LET bid == stock.bid
        bid_size == stock.bidSize
    IN  IF bid = Absent \/ bid_size = Absent
        THEN [msgs |-> <<>>, exact |-> exact, high |-> high]
        ELSE LET p1 == Abs(bid[1] - 199999000) < 10 /\ bid_size[1] = 100
                       /\ sym \notin exact
                 p2 == bid[1] >= 2000000 /\ bid_size[1] >= 20 /\ sym \notin high
             IN  [msgs |-> (IF p1 THEN <<Alert("BID_EXACT", sym)>> ELSE <<>>)
                           \o (IF p2 THEN <<Alert("BID_HIGH", sym)>> ELSE <<>>),
                  exact |-> IF p1 THEN exact \cup {sym} ELSE exact,
                  high |-> IF p2 THEN high \cup {sym} ELSE high]

\* Variant: the rule fires without marking the symbol.
check_unusual_activity_noflag(sym, stock, unusual) ==
    IF sym \in unusual
    THEN [msg |-> <<>>, unusual |-> unusual]
    ELSE LET pct == OrDefault(stock.pct, 0)
             vol == OrDefault(stock.vol, 0)
             avg3m == OrDefault(stock.avg3m, 1)
             ratio3 == IF avg3m > 0 THEN vol >= 3 * avg3m ELSE FALSE
         IN  IF pct >= 100 \/ ratio3
             THEN [msg |-> <<Alert("UNUSUAL", sym)>>, unusual |-> unusual]
             ELSE [msg |-> <<>>, unusual |-> unusual]

check_unusual_activity(sym, stock, unusual) ==
    IF sym \in unusual
    THEN [msg |-> <<>>, unusual |-> unusual]
    ELSE LET pct == OrDefault(stock.pct, 0)
             vol == OrDefault(stock.vol, 0)
             avg3m == OrDefault(stock.avg3m, 1)
             \* ratio >= 3.0, with ratio = vol / avg3m if avg3m > 0 else 1.0
             ratio3 == IF avg3m > 0 THEN vol >= 3 * avg3m ELSE FALSE
         IN  IF pct >= 100 \/ ratio3
             THEN [msg |-> <<Alert("UNUSUAL", sym)>>, unusual |-> unusual \cup {sym}]
             ELSE [msg |-> <<>>, unusual |-> unusual]

\* watchlist.setdefault(sym, {"reason": reason})
setdefault(wl, sym, reason) ==
    IF wl[sym] = "none" THEN [wl EXCEPT ![sym] = reason] ELSE wl

\* Variant: the halt alert does not add the symbol to the watchlist.
check_halt_nowatch(sym, stock, halt, wl) ==
    IF stock.marketState = <<"HALTED">> /\ sym \notin halt
    THEN [msg |-> <<Alert("HALT", sym)>>, halt |-> halt \cup {sym}, wl |-> wl]
    ELSE [msg |-> <<>>, halt |-> halt, wl |-> wl]

check_halt(sym, stock, halt, wl) ==
    IF stock.marketState = <<"HALTED">> /\ sym \notin halt
    THEN [msg |-> <<Alert("HALT", sym)>>, halt |-> halt \cup {sym},
          wl |-> setdefault(wl, sym, "halt")]
    ELSE [msg |-> <<>>, halt |-> halt, wl |-> wl]

\* Variant: the observed volume is stored on the first observation and when
\* the alert fires, and kept as it was otherwise.
update_watchlist_volume_onalert(sym, stock, lwv) ==
    LET vol == stock.vol IN
    IF vol = Absent
    THEN [msg |-> <<>>, lwv |-> lwv]
    ELSE LET prev == lwv[sym]
             new == [lwv EXCEPT ![sym] = vol]
         IN  IF prev = Absent
             THEN [msg |-> <<>>, lwv |-> new]
             ELSE IF vol[1] - prev[1] >= LARGE_SALE_VOLUME_DELTA
                  THEN [msg |-> <<Alert("LARGE_SALE", sym)>>, lwv |-> new]
                  ELSE [msg |-> <<>>, lwv |-> lwv]

update_watchlist_volume(sym, stock, lwv) ==
    LET vol == stock.vol IN
    IF vol = Absent
    THEN [msg |-> <<>>, lwv |-> lwv]
    ELSE LET prev == lwv[sym]
             new == [lwv EXCEPT ![sym] = vol]
         IN  IF prev = Absent
             THEN [msg |-> <<>>, lwv |-> new]
             ELSE IF vol[1] - prev[1] >= LARGE_SALE_VOLUME_DELTA
                  THEN [msg |-> <<Alert("LARGE_SALE", sym)>>, lwv |-> new]
                  ELSE [msg |-> <<>>, lwv |-> new]

\* Variants of the loop body: one that also sends a gain alert for a change
\* of at least 5%, one whose gate of the bid patterns is pct > 5.0.
scan_stock_gain(st, stock) ==
    IF stock.symbol = Absent
    THEN st
    ELSE LET sym == stock.symbol[1]
             v == check_volume_spike(sym, stock, st.spike)
             pct == OrDefault(stock.pct, 0)
             g == IF pct >= PCT_CHANGE_THRESHOLD THEN <<Alert("GAIN", sym)>> ELSE <<>>
             b == IF pct >= PCT_CHANGE_THRESHOLD
                  THEN check_bid_patterns(sym, stock, st.exact, st.high)
                  ELSE [msgs |-> <<>>, exact |-> st.exact, high |-> st.high]
             u == check_unusual_activity(sym, stock, st.unusual)
             h == check_halt(sym, stock, st.halt, st.wl)
             wl5 == IF h.wl[sym] # "none" \/ v.msg # <<>> \/ u.msg # <<>>
                    THEN setdefault(h.wl, sym, "activity")
                    ELSE h.wl
         IN  [spike |-> v.spike, exact |-> b.exact, high |-> b.high,
              unusual |-> u.unusual, halt |-> h.halt, wl |-> wl5,
              out |-> st.out \o v.msg \o g \o b.msgs \o u.msg \o h.msg]

scan_stock_strict(st, stock) ==
    IF stock.symbol = Absent
    THEN st
    ELSE LET sym == stock.symbol[1]
             v == check_volume_spike(sym, stock, st.spike)
             pct == OrDefault(stock.pct, 0)
             b == IF pct > PCT_CHANGE_THRESHOLD
                  THEN check_bid_patterns(sym, stock, st.exact, st.high)
                  ELSE [msgs |-> <<>>, exact |-> st.exact, high |-> st.high]
             u == check_unusual_activity(sym, stock, st.unusual)
             h == check_halt(sym, stock, st.halt, st.wl)
             wl5 == IF h.wl[sym] # "none" \/ v.msg # <<>> \/ u.msg # <<>>
                    THEN setdefault(h.wl, sym, "activity")
                    ELSE h.wl
         IN  [spike |-> v.spike, exact |-> b.exact, high |-> b.high,
              unusual |-> u.unusual, halt |-> h.halt, wl |-> wl5,
              out |-> st.out \o v.msg \o b.msgs \o u.msg \o h.msg]

\* Variant: the record without symbol is skipped only after the volume-spike
\* rule has judged it, under the name "N/A".
scan_stock_latedrop(st, stock) ==
    IF stock.symbol = Absent
    THEN LET v == check_volume_spike("N/A", stock, st.spike)
         IN  [st EXCEPT !.spike = v.spike, !.out = st.out \o v.msg]
    ELSE LET sym == stock.symbol[1]
             v == check_volume_spike(sym, stock, st.spike)
             pct == OrDefault(stock.pct, 0)
             b == IF pct >= PCT_CHANGE_THRESHOLD
                  THEN check_bid_patterns(sym, stock, st.exact, st.high)
                  ELSE [msgs |-> <<>>, exact |-> st.exact, high |-> st.high]
             u == check_unusual_activity(sym, stock, st.unusual)
             h == check_halt(sym, stock, st.halt, st.wl)
             wl5 == IF h.wl[sym] # "none" \/ v.msg # <<>> \/ u.msg # <<>>
                    THEN setdefault(h.wl, sym, "activity")
                    ELSE h.wl
         IN  [spike |-> v.spike, exact |-> b.exact, high |-> b.high,
              unusual |-> u.unusual, halt |-> h.halt, wl |-> wl5,
              out |-> st.out \o v.msg \o b.msgs \o u.msg \o h.msg]

\* Variant: a bid-match alert puts the symbol on the watchlist as well.
scan_stock_bidwatch(st, stock) ==
    IF stock.symbol = Absent
    THEN st
    ELSE LET sym == stock.symbol[1]
             v == check_volume_spike(sym, stock, st.spike)
             pct == OrDefault(stock.pct, 0)
             b == IF pct >= PCT_CHANGE_THRESHOLD
                  THEN check_bid_patterns(sym, stock, st.exact, st.high)
                  ELSE [msgs |-> <<>>, exact |-> st.exact, high |-> st.high]
             u == check_unusual_activity(sym, stock, st.unusual)
             h == check_halt(sym, stock, st.halt, st.wl)
             wl5 == IF h.wl[sym] # "none" \/ v.msg # <<>> \/ b.msgs # <<>> \/ u.msg # <<>>
                    THEN setdefault(h.wl, sym, "activity")
                    ELSE h.wl
         IN  [spike |-> v.spike, exact |-> b.exact, high |-> b.high,
              unusual |-> u.unusual, halt |-> h.halt, wl |-> wl5,
              out |-> st.out \o v.msg \o b.msgs \o u.msg \o h.msg]

\* The body of the loop over the screener records: st holds the tables and
\* out, the messages sent so far in this task.
scan_stock(st, stock) ==
    IF stock.symbol = Absent
    THEN st
    ELSE LET sym == stock.symbol[1]
             v == check_volume_spike(sym, stock, st.spike)
             pct == OrDefault(stock.pct, 0)
             b == IF pct >= PCT_CHANGE_THRESHOLD
                  THEN check_bid_patterns(sym, stock, st.exact, st.high)
                  ELSE [msgs |-> <<>>, exact |-> st.exact, high |-> st.high]
             u == check_unusual_activity(sym, stock, st.unusual)
             h == check_halt(sym, stock, st.halt, st.wl)
             wl5 == IF h.wl[sym] # "none" \/ v.msg # <<>> \/ u.msg # <<>>
                    THEN setdefault(h.wl, sym, "activity")
                    ELSE h.wl
         IN  [spike |-> v.spike, exact |-> b.exact, high |-> b.high,
              unusual |-> u.unusual, halt |-> h.halt, wl |-> wl5,
              out |-> st.out \o v.msg \o b.msgs \o u.msg \o h.msg]

RECURSIVE scan_loop(_, _)
scan_loop(st, gainers) ==
    IF gainers = <<>> THEN st
    ELSE scan_loop(scan_stock(st, Head(gainers)), Tail(gainers))

\* ---------------------------------------------------------------- formatters
\* g.get("symbol", "N/A")
SymOrNA(rec) == IF rec.symbol = Absent THEN "N/A" ELSE rec.symbol[1]

\* sorted(..., key=pct or 0.0, reverse=True): stable, greatest first.
RECURSIVE InsertDesc(_, _)
InsertDesc(s, g) ==
    IF s = <<>> THEN <<g>>
    ELSE IF OrDefault(Head(s).pct, 0) >= OrDefault(g.pct, 0)
         THEN <<Head(s)>> \o InsertDesc(Tail(s), g)
         ELSE <<g>> \o s

RECURSIVE SortedDesc(_, _)
SortedDesc(acc, gainers) ==
    IF gainers = <<>> THEN acc
    ELSE SortedDesc(InsertDesc(acc, Head(gainers)), Tail(gainers))

FirstN(s, n) == SubSeq(s, 1, Min(n, Len(s)))

\* raised: the f-string "{price:.2f}" raises TypeError on a record of the
\* ten whose regularMarketPrice is None.
format_top_gainers(gainers) ==
    LET sorted_g == FirstN(SortedDesc(<<>>, gainers), 10)
    IN  [raised |-> \E i \in 1..Len(sorted_g) : sorted_g[i].price = Absent,
         msg |-> Digest("TOP10",
                        [i \in 1..Len(sorted_g) |-> <<"row", SymOrNA(sorted_g[i])>>])]

\* float(str(opt.get(key, "0")).replace(",", "")): a field is absent, a JSON
\* number, a numeric string that may carry thousands commas ("3,000" holds
\* 3000) or a string that is no number.
ParseFloat(x) ==
    CASE x.form = "absent" -> [ok |-> TRUE, v |-> 0]
      [] x.form = "num" -> [ok |-> TRUE, v |-> x.v]
      [] x.form = "str" -> [ok |-> TRUE, v |-> x.v]
      [] OTHER -> [ok |-> FALSE, v |-> 0]

RECURSIVE FilterOptions(_)
FilterOptions(options_list) ==
    IF options_list = <<>> THEN <<>>
    ELSE LET opt == Head(options_list)
             vol_oi == ParseFloat(opt.volumeOpenInterestRatio)
             vol == ParseFloat(opt.volume)
             rest == FilterOptions(Tail(options_list))
         IN  IF ~vol_oi.ok \/ ~vol.ok THEN rest
             ELSE IF vol_oi.v >= UNUSUAL_OPTIONS_VOL_OI_MIN
                     /\ vol.v >= UNUSUAL_OPTIONS_VOLUME_MIN
                  THEN <<opt>> \o rest
                  ELSE rest

\* Variant: contracts an earlier notification listed are left out.
RECURSIVE DropReported(_)
DropReported(opts) ==
    IF opts = <<>> THEN <<>>
    ELSE (IF Head(opts).symbol \in reported THEN <<>> ELSE <<Head(opts)>>)
         \o DropReported(Tail(opts))

format_unusual_options_dedup(options_list) ==
    LET filtered == FirstN(DropReported(FilterOptions(options_list)), 10)
    IN  IF filtered = <<>>
        THEN Digest("NO_OPTIONS", <<>>)
        ELSE Digest("OPTIONS",
                    [i \in 1..Len(filtered) |-> <<"row", filtered[i].symbol>>])

format_unusual_options(options_list) ==
    LET filtered == FirstN(FilterOptions(options_list), 10)
    IN  IF filtered = <<>>
        THEN Digest("NO_OPTIONS", <<>>)
        ELSE Digest("OPTIONS",
                    [i \in 1..Len(filtered) |-> <<"row", filtered[i].symbol>>])

RECURSIVE GapUpRows(_)
GapUpRows(gainers) ==
    IF gainers = <<>> THEN <<>>
    ELSE LET g == Head(gainers)
             pct == OrDefault(g.pct, 0)
             rest == GapUpRows(Tail(gainers))
         IN  IF pct < GAP_UP_THRESHOLD THEN rest
             ELSE IF g.price = Absent \/ g.prevClose = Absent THEN rest
             ELSE <<<<"row", SymOrNA(g)>>>> \o rest

\* Variant: a name that an earlier digest listed is left out.
RECURSIVE DropListed(_)
DropListed(rows) ==
    IF rows = <<>> THEN <<>>
    ELSE (IF Head(rows)[2] \in gapReported THEN <<>> ELSE <<Head(rows)>>)
         \o DropListed(Tail(rows))

format_gap_up_alerts_once(gainers) ==
    LET rows == DropListed(GapUpRows(gainers))
    IN  IF rows = <<>> THEN <<>> ELSE <<Digest("GAPUP", rows)>>

\* <<>> for None.
format_gap_up_alerts(gainers) ==
    LET rows == GapUpRows(gainers)
    IN  IF rows = <<>> THEN <<>> ELSE <<Digest("GAPUP", rows)>>

RECURSIVE PrePostRows(_, _)
PrePostRows(quotes, part) ==
    IF quotes = <<>> THEN <<>>
    ELSE LET q == Head(quotes)
             p == IF part = "pre" THEN q.prePct ELSE q.postPct
             limit == IF part = "pre" THEN PREMARKET_GAP_THRESHOLD
                      ELSE AFTER_HOURS_MOVE_THRESHOLD
             rest == PrePostRows(Tail(quotes), part)
         IN  IF p # Absent /\ Abs(p[1]) >= limit
             THEN <<<<part, SymOrNA(q)>>>> \o rest
             ELSE rest

format_premarket_and_afterhours(quotes) ==
    LET rows == PrePostRows(quotes, "pre") \o PrePostRows(quotes, "post")
    IN  IF rows = <<>> THEN <<>> ELSE <<Digest("PREPOST", rows)>>

format_dark_pool_spy(dark_list) ==
    IF dark_list = <<>> THEN <<>>
    ELSE <<Digest("DARKPOOL", [i \in 1..Len(dark_list) |-> <<"print", dark_list[i]>>])>>

\* [g.get("symbol") for g in gainers[:20] if g.get("symbol")]
RECURSIVE SymbolsOf(_)
SymbolsOf(gainers) ==
    IF gainers = <<>> THEN <<>>
    ELSE (IF Head(gainers).symbol = Absent THEN <<>> ELSE <<Head(gainers).symbol[1]>>)
         \o SymbolsOf(Tail(gainers))

\* -------------------------------------------------------------------- inputs
\* A screener record (fields of the JSON object, by the names used here):
\* symbol, pct = regularMarketChangePercent, vol = regularMarketVolume,
\* avg3m = averageDailyVolume3Month, bid, bidSize, marketState,
\* price = regularMarketPrice, prevClose = regularMarketPreviousClose.
Stock(sym, pct, vol, avg3m, bid, bidSize, ms, price, prev) ==
    [symbol |-> sym, pct |-> pct, vol |-> vol, avg3m |-> avg3m, bid |-> bid,
     bidSize |-> bidSize, marketState |-> ms, price |-> price, prevClose |-> prev]

\* A quote: symbol, vol = regularMarketVolume, prePct = preMarketChangePercent,
\* postPct = postMarketChangePercent.
Quote(sym, vol, pre, post) ==
    [symbol |-> sym, vol |-> vol, prePct |-> pre, postPct |-> post]

\* An options contract: symbol, volumeOpenInterestRatio and volume, each in
\* one of the forms ParseFloat tells apart.
Field(form, v) == [form |-> form, v |-> v]
Option(sym, vol_oi, vol) ==
    [symbol |-> sym, volumeOpenInterestRatio |-> vol_oi, volume |-> vol]

NoSymbolStock == Stock(Absent, <<100>>, <<3000>>, <<1000>>, <<199999000>>, <<100>>,
                       <<"HALTED">>, <<1000>>, <<900>>)

PctValues == {Absent, <<50>>, <<75>>, <<100>>}
\* <<vol, avg3m>>
VolumeValues == {<<Absent, <<1000>>>>, <<<<2000>>, <<1000>>>>, <<<<3000>>, <<1000>>>>,
                 <<<<3000>>, <<0>>>>}
\* <<bid, bidSize>>
BidValues == {<<<<199999000>>, <<100>>>>, <<<<199999009>>, <<100>>>>,
              <<<<199999010>>, <<100>>>>, <<<<199999000>>, <<20>>>>}

AllRules(sym) == Stock(<<sym>>, <<100>>, <<3000>>, <<1000>>, <<199999000>>, <<100>>,
                       <<"HALTED">>, <<1000>>, <<900>>)

\* The records of the main scan.  For AAA: every change with every volume
\* (the volume-spike and unusual-activity rules), every bid under a change
\* below and at the threshold (the bid rules and their gate), a halt with
\* and without a volume spike, and a record that meets every rule.  For BBB a
\* quiet record and one that meets every rule.
MainRecords ==
    {Stock(<<"AAA">>, p, v[1], v[2], Absent, Absent, <<"REGULAR">>, <<1000>>, <<900>>) :
        p \in PctValues, v \in VolumeValues}
    \cup {Stock(<<"AAA">>, p, Absent, <<1000>>, b[1], b[2], <<"REGULAR">>, <<1000>>, <<900>>) :
        p \in {Absent, <<50>>}, b \in BidValues}
    \cup {Stock(<<"AAA">>, Absent, v, <<1000>>, Absent, Absent, <<"HALTED">>, <<1000>>, <<900>>) :
        v \in {Absent, <<2000>>}}
    \cup {AllRules("AAA"), AllRules("BBB"), NoSymbolStock,
          Stock(<<"BBB">>, Absent, Absent, <<1000>>, Absent, Absent, <<"REGULAR">>,
                <<1000>>, <<900>>)}

BatchRecords ==
    {NoSymbolStock, AllRules("AAA"),
     Stock(<<"BBB">>, <<50>>, <<2000>>, <<1000>>, Absent, Absent, <<"REGULAR">>,
           <<1000>>, <<900>>)}

\* Batches of at most MaxBatch records over a set of records.
RECURSIVE Batches(_, _)
Batches(recs, n) ==
    IF n = 0 THEN {<<>>}
    ELSE LET shorter == Batches(recs, n - 1)
         IN  shorter \cup {<<r>> \o b : r \in recs, b \in {x \in shorter : Len(x) = n - 1}}

\* What get_screener_day_gainers returns to the main scan: [] (no data: the
\* request failed, the status was not 200 or the body was missing or empty),
\* one record, or a batch.
MainGainers ==
    {<<>>} \cup {<<r>> : r \in MainRecords} \cup Batches(BatchRecords, MaxBatch)

\* The records of the top-10 report and the gap-up digest.
ReportRecords ==
    {Stock(s, p, <<2000>>, <<1000>>, Absent, Absent, <<"REGULAR">>, pr, cl) :
        s \in {Absent, <<"AAA">>}, p \in {Absent, <<49>>, <<50>>, <<75>>},
        pr \in {Absent, <<1000>>}, cl \in {Absent, <<900>>}}

ReportBatchRecords ==
    {Stock(<<"AAA">>, <<50>>, <<2000>>, <<1000>>, Absent, Absent, <<"REGULAR">>,
           <<1000>>, <<900>>),
     Stock(<<"BBB">>, <<75>>, <<2000>>, <<1000>>, Absent, Absent, <<"REGULAR">>,
           <<1000>>, <<900>>),
     Stock(Absent, <<75>>, <<2000>>, <<1000>>, Absent, Absent, <<"REGULAR">>,
           Absent, <<900>>)}

ReportGainers ==
    {<<>>} \cup {<<r>> : r \in ReportRecords} \cup Batches(ReportBatchRecords, MaxBatch)

\* Records at the edges of the volume rules: <<vol, avg3m>> with either
\* missing, zero or negative, next to ratios just below and at 2.0, under no
\* change and under a change of 10%.
EdgeVolumes ==
    {<<Absent, Absent>>, <<Absent, <<1000>>>>, <<<<0>>, <<0>>>>, <<<<0>>, <<1000>>>>,
     <<<<3000>>, <<0>>>>, <<<<3000>>, <<-1000>>>>, <<<<3000>>, Absent>>,
     <<<<1999>>, <<1000>>>>, <<<<2000>>, <<1000>>>>}

VolumeRecords ==
    {Stock(<<sym>>, p, v[1], v[2], Absent, Absent, <<"REGULAR">>, <<1000>>, <<900>>) :
        sym \in Symbols, p \in {Absent, <<99>>, <<100>>}, v \in EdgeVolumes}

VolumeBatchRecords ==
    {Stock(<<"AAA">>, Absent, <<0>>, <<0>>, Absent, Absent, <<"REGULAR">>, <<1000>>, <<900>>),
     Stock(<<"AAA">>, Absent, <<2000>>, <<1000>>, Absent, Absent, <<"REGULAR">>, <<1000>>,
           <<900>>),
     Stock(<<"BBB">>, Absent, <<3000>>, Absent, Absent, Absent, <<"REGULAR">>, <<1000>>,
           <<900>>)}

VolumeGainers ==
    {<<>>} \cup {<<r>> : r \in VolumeRecords} \cup Batches(VolumeBatchRecords, MaxBatch)

\* Responses that mix records with and without symbol: a record of each
\* kind that meets every rule of the main scan and of the reports.
SymbolBatchRecords == {NoSymbolStock, AllRules("AAA")}

SymbolGainers == Batches(SymbolBatchRecords, MaxBatch)

\* Quotes with a premarket move, one of them without symbol.
SymbolQuotes ==
    {<<Quote(<<"AAA">>, <<1000>>, <<30>>, Absent)>>,
     <<Quote(Absent, <<1000>>, <<-30>>, <<30>>)>>}

\* The main scan's responses that put a symbol on the watchlist.
WatchGainers ==
    {<<Stock(<<sym>>, Absent, <<2000>>, <<1000>>, Absent, Absent, <<"REGULAR">>, <<1000>>,
             <<900>>)>> : sym \in Symbols}

\* The volumes of the watchlist task's quotes: none, zero, and volumes that
\* differ by just under, exactly and over 10000.
WatchVolumes == {Absent, <<0>>, <<1000>>, <<10999>>, <<11000>>}

WatchBatchQuotes ==
    {Quote(<<"AAA">>, <<1000>>, Absent, Absent), Quote(<<"AAA">>, <<11000>>, Absent, Absent),
     Quote(<<"BBB">>, Absent, Absent, Absent)}

\* What get_quotes returns to the watchlist task: [] (no data), one quote
\* with or without symbol, or a batch.
WatchQuotes ==
    {<<>>} \cup {<<Quote(sy, v, Absent, Absent)>> : sy \in {Absent, <<"AAA">>, <<"BBB">>},
                                                  v \in WatchVolumes}
    \cup Batches(WatchBatchQuotes, MaxBatch)

\* The main scan's responses under a messaging endpoint that may fail: a
\* record that meets every rule, one that meets the unusual-activity rule
\* only, a halted one, and two records of a symbol in one response.
SendRecords ==
    {AllRules("AAA"),
     Stock(<<"AAA">>, <<100>>, Absent, <<1000>>, Absent, Absent, <<"REGULAR">>, <<1000>>,
           <<900>>),
     Stock(<<"BBB">>, Absent, Absent, <<1000>>, Absent, Absent, <<"HALTED">>, <<1000>>,
           <<900>>)}

SendGainers ==
    {<<r>> : r \in SendRecords}
    \cup {<<Stock(<<"BBB">>, Absent, Absent, <<1000>>, Absent, Absent, <<"HALTED">>,
                  <<1000>>, <<900>>),
            AllRules("BBB")>>}

\* What get_quotes returns to the main scan: a quote with an after-hours move.
PrePostQuotes == {<<Quote(<<"AAA">>, <<1000>>, <<29>>, <<-30>>)>>}

Contracts == {"C1", "C2"}

OptionRecords ==
    {Option("C1", r, v) :
        r \in {Field("absent", 0), Field("num", 30), Field("num", 29), Field("bad", 0)},
        v \in {Field("num", 3000), Field("str", 3000), Field("num", 2999)}}

OptionBatchRecords ==
    {Option("C1", Field("num", 30), Field("str", 3000)),
     Option("C2", Field("num", 30), Field("num", 3000)),
     Option("C2", Field("bad", 0), Field("num", 3000))}

OptionLists ==
    {<<>>} \cup {<<o>> : o \in OptionRecords} \cup Batches(OptionBatchRecords, MaxBatch)

DarkLists == {<<>>, <<"SPY">>}

\* ----------------------------------------------------------- initial state
\* The observations the gain-threshold scenario is about: 5.0, 5.0, 7.5.
GainScenario == <<50, 50, 75>>

AlertKinds == Rules \cup {"GAIN"}

\* The process may start at any time of the week; these starts put the first
\* iterations next to the edges of the window, on a weekend and on a weekday
\* that is a holiday (see HolidayDays).
StartTimes ==
    {0 * 86400 + 5 * 3600 + 59 * 60 + 51,    \* Monday 05:59:51
     0 * 86400 + 18 * 3600 + 0 * 60 + 50,    \* Monday 18:00:50
     3 * 86400 + 10 * 3600,                  \* Thursday 10:00:00
     5 * 86400 + 10 * 3600,                  \* Saturday 10:00:00
     1 * 86400 + 6 * 3600 + 30}              \* Tuesday 06:00:30

\* Seconds between two readings of the clock (sleep plus the time the tasks
\* took); the sleep is 1 s after an open iteration and 5 s after a closed one.
Deltas == {1, 9, 110, 290, 1790}

DataInit ==
    /\ last_volume_spike_alert = {}
    /\ last_bid_exact_alert = {}
    /\ last_bid_highvalue_alert = {}
    /\ last_unusual_activity_alert = {}
    /\ last_halt_alert = {}
    /\ watchlist = [s \in Symbols |-> "none"]
    /\ last_watchlist_volume = [s \in Symbols |-> Absent]
    /\ ran = "none" /\ fetched = {} /\ failed = {} /\ input = <<>> /\ outbox = <<>>
    /\ lost = {}
    /\ ranInTick = {}
    /\ fired = [k \in AlertKinds |-> [s \in Symbols |-> 0]]
    /\ spikeAt = [s \in Symbols |-> Absent]
    /\ seenBid = {} /\ seenBidGated = {}
    /\ mainTrack = [s \in Symbols |-> 0] /\ mainGain = [s \in Symbols |-> 0]
    /\ reported = {} /\ relisted = {}
    /\ gapReported = {} /\ gapRelisted = {}

LastInit ==
    /\ last_main_scan = DatetimeMin
    /\ last_top10 = DatetimeMin
    /\ last_unusual = DatetimeMin
    /\ last_watchlist = DatetimeMin
    /\ last_market_status = DatetimeMin
    /\ last_dark_pool = DatetimeMin
    /\ last_gapup = DatetimeMin

\* os.getenv of the three settings: Absent when the variable is not set, else
\* <<its value>>, which may be the empty string.
Setting(key, token, chat) ==
    [MBOUM_API_KEY |-> key, TELEGRAM_BOT_TOKEN |-> token, TELEGRAM_CHAT_ID |-> chat]

Unset(x) == x = Absent \/ x = <<"">>

AllSet == Setting(<<"key">>, <<"token">>, <<"chat">>)

\* Every setting present, and each one in turn missing.
Environments ==
    {AllSet,
     Setting(Absent, <<"token">>, <<"chat">>),
     Setting(<<"">>, <<"token">>, <<"chat">>),
     Setting(<<"key">>, Absent, <<"chat">>),
     Setting(<<"key">>, <<"token">>, Absent)}

\* The state when the module has been loaded and the entrypoint begins.
Init ==
    /\ env \in Environments
    /\ now \in StartTimes
    /\ ticks = 0
    /\ pc = "start"
    /\ LastInit
    /\ DataInit

\* --------------------------------------------------------------------- tasks
\* Each task is given what its fetches return and sets the tables, what the
\* step did and the history; the scheduling variables are the caller's.

Tables == [spike |-> last_volume_spike_alert, exact |-> last_bid_exact_alert,
           high |-> last_bid_highvalue_alert, unusual |-> last_unusual_activity_alert,
           halt |-> last_halt_alert, wl |-> watchlist, out |-> <<>>]

\* The messages of a kind about a symbol among out.
RECURSIVE Count(_, _, _)
Count(out, kind, s) ==
    IF out = <<>> THEN 0
    ELSE (IF Head(out).kind = kind /\ Head(out).sym = s THEN 1 ELSE 0)
         + Count(Tail(out), kind, s)

\* fired after the messages of out, each kind and symbol counted up to 2.
RECURSIVE Tally(_, _)
Tally(f, out) ==
    IF out = <<>> THEN f
    ELSE LET m == Head(out) IN
         Tally(IF m.kind \in AlertKinds
               THEN [f EXCEPT ![m.kind][m.sym] = Min(@ + 1, 2)]
               ELSE f,
               Tail(out))

\* spikeAt after the messages of out.
RECURSIVE SpikeFigures(_, _)
SpikeFigures(f, out) ==
    IF out = <<>> THEN f
    ELSE LET m == Head(out) IN
         SpikeFigures(IF m.kind = "VOLUME_SPIKE" THEN [f EXCEPT ![m.sym] = m.list[1]] ELSE f,
                      Tail(out))

\* The indices of the records of a batch that carry symbol s.
ObsIdx(recs, s) == {i \in 1..Len(recs) : recs[i].symbol = <<s>>}

\* The bid-exact condition as the rule table states it: bid within 0.01 of
\* 199999.00 and bidSize 100.
BidExactStated(r) ==
    /\ r.bid # Absent /\ r.bidSize # Absent
    /\ Abs(r.bid[1] - 199999000) <= 10 /\ r.bidSize[1] = 100

\* The same as the scan applies it: less than 0.01 away, on a record whose
\* change is at least 5%.
BidExactGated(r) ==
    /\ r.bid # Absent /\ r.bidSize # Absent
    /\ Abs(r.bid[1] - 199999000) < 10 /\ r.bidSize[1] = 100
    /\ OrDefault(r.pct, 0) >= 50

\* A symbol's progress along GainScenario: unchanged by a batch without the
\* symbol, one further when the batch observes the next value of the
\* scenario, -1 once its observations leave the scenario.
TrackNext(t, recs, s) ==
    LET idx == ObsIdx(recs, s) IN
    IF idx = {} THEN t
    ELSE IF /\ Cardinality(idx) = 1
            /\ t >= 0 /\ t < Len(GainScenario)
            /\ \A i \in idx : recs[i].pct = <<GainScenario[t + 1]>>
         THEN t + 1
         ELSE -1

run_main_scanner(gainers, quotes) ==
    IF gainers = <<>>
    THEN /\ ran' = "main" /\ fetched' = {"screener"} /\ input' = gainers
         /\ failed' = {"screener"}
         /\ outbox' = <<>>
         /\ UNCHANGED <<DataVars, MainHist, OptHist, GapHist>>
    ELSE \E st \in {scan_loop(Tables, gainers)} :
         \E symbols \in {SymbolsOf(FirstN(gainers, 20))} :
         \E out \in {st.out \o (IF symbols = <<>> THEN <<>>
                                ELSE format_premarket_and_afterhours(quotes))} :
         \E track \in {[s \in Symbols |-> TrackNext(mainTrack[s], gainers, s)]} :
             /\ ran' = "main" /\ input' = gainers
             /\ fetched' = IF symbols = <<>> THEN {"screener"} ELSE {"screener", "quote"}
             /\ failed' = IF symbols # <<>> /\ quotes = <<>> THEN {"quote"} ELSE {}
             /\ outbox' = out
             /\ last_volume_spike_alert' = st.spike
             /\ last_bid_exact_alert' = st.exact
             /\ last_bid_highvalue_alert' = st.high
             /\ last_unusual_activity_alert' = st.unusual
             /\ last_halt_alert' = st.halt
             /\ watchlist' = st.wl
             /\ fired' = Tally(fired, out)
             /\ spikeAt' = SpikeFigures(spikeAt, out)
             /\ seenBid' = seenBid \cup
                    {s \in Symbols : \E i \in ObsIdx(gainers, s) : BidExactStated(gainers[i])}
             /\ seenBidGated' = seenBidGated \cup
                    {s \in Symbols : \E i \in ObsIdx(gainers, s) : BidExactGated(gainers[i])}
             /\ mainTrack' = track
             /\ mainGain' = [s \in Symbols |->
                    IF track[s] < 0 THEN 0
                    ELSE IF track[s] = mainTrack[s] THEN mainGain[s]
                    ELSE Min(mainGain[s] + Count(out, "GAIN", s), Len(GainScenario))]
             /\ UNCHANGED <<last_watchlist_volume, OptHist, GapHist>>

\* TRUE when the task ends with the TypeError of format_top_gainers, which
\* nothing catches: the process ends.
Top10Raises(gainers) == gainers # <<>> /\ format_top_gainers(gainers).raised

\* Variant: the report is formatted and sent without the test for no data.
run_top10_task_noskip(gainers) ==
    /\ ran' = "top10" /\ fetched' = {"screener"} /\ input' = gainers
    /\ failed' = IF gainers = <<>> THEN {"screener"} ELSE {}
    /\ outbox' = IF format_top_gainers(gainers).raised THEN <<>>
                 ELSE <<format_top_gainers(gainers).msg>>
    /\ UNCHANGED <<DataVars, MainHist, OptHist, GapHist>>

run_top10_task(gainers) ==
    /\ ran' = "top10" /\ fetched' = {"screener"} /\ input' = gainers
    /\ failed' = IF gainers = <<>> THEN {"screener"} ELSE {}
    /\ outbox' = IF gainers = <<>> \/ format_top_gainers(gainers).raised THEN <<>>
                 ELSE <<format_top_gainers(gainers).msg>>
    /\ UNCHANGED <<DataVars, MainHist, OptHist, GapHist>>

\* The symbols (or contracts) a digest lists.
Listed(m) == {m.list[j][2] : j \in 1..Len(m.list)}

run_unusual_options_task(opts) ==
    IF opts = <<>>
    THEN /\ ran' = "unusual" /\ fetched' = {"options"} /\ input' = opts
         /\ failed' = {"options"}
         /\ outbox' = <<>>
         /\ UNCHANGED <<DataVars, MainHist, OptHist, GapHist>>
    ELSE LET msg == format_unusual_options(opts)
             listed == IF msg.kind = "OPTIONS" THEN Listed(msg) ELSE {}
         IN  /\ ran' = "unusual" /\ fetched' = {"options"} /\ input' = opts
             /\ failed' = {}
             /\ outbox' = <<msg>>
             /\ reported' = reported \cup listed
             /\ relisted' = listed \cap reported
             /\ UNCHANGED <<DataVars, MainHist, GapHist>>

RECURSIVE watch_loop(_, _)
watch_loop(st, quotes) ==
    IF quotes = <<>> THEN st
    ELSE LET q == Head(quotes) IN
         IF q.symbol = Absent THEN watch_loop(st, Tail(quotes))
         ELSE LET u == update_watchlist_volume(q.symbol[1], q, st.lwv)
              IN  watch_loop([lwv |-> u.lwv, out |-> st.out \o u.msg], Tail(quotes))

run_watchlist_task(quotes) ==
    IF \A s \in Symbols : watchlist[s] = "none"
    THEN /\ ran' = "watchlist" /\ fetched' = {} /\ failed' = {}
         /\ input' = <<>> /\ outbox' = <<>>
         /\ UNCHANGED <<DataVars, MainHist, OptHist, GapHist>>
    ELSE LET st == watch_loop([lwv |-> last_watchlist_volume, out |-> <<>>], quotes)
         IN  /\ ran' = "watchlist" /\ fetched' = {"quote"} /\ input' = quotes
             /\ failed' = IF quotes = <<>> THEN {"quote"} ELSE {}
             /\ outbox' = st.out
             /\ last_watchlist_volume' = st.lwv
             /\ UNCHANGED <<DedupVars, watchlist, MainHist, OptHist, GapHist>>

\* Variant: the status counts the closing minute as closed.
run_market_status_task_strict(now_est) ==
    LET status == IF is_trading_day(now_est) /\ is_within_trading_window_strict(now_est)
                  THEN "OPEN" ELSE "CLOSED"
    IN  /\ ran' = "status" /\ fetched' = {} /\ failed' = {} /\ input' = <<>>
        /\ outbox' = <<Digest("STATUS", <<<<"status", status>>>>)>>
        /\ UNCHANGED <<DataVars, MainHist, OptHist, GapHist>>

run_market_status_task(now_est) ==
    LET status == IF is_trading_day(now_est) /\ is_within_trading_window(now_est)
                  THEN "OPEN" ELSE "CLOSED"
    IN  /\ ran' = "status" /\ fetched' = {} /\ failed' = {} /\ input' = <<>>
        /\ outbox' = <<Digest("STATUS", <<<<"status", status>>>>)>>
        /\ UNCHANGED <<DataVars, MainHist, OptHist, GapHist>>

run_dark_pool_task(dark) ==
    /\ ran' = "darkpool" /\ fetched' = {"dark-pools"} /\ input' = dark
    /\ failed' = IF dark = <<>> THEN {"dark-pools"} ELSE {}
    /\ outbox' = format_dark_pool_spy(dark)
    /\ UNCHANGED <<DataVars, MainHist, OptHist, GapHist>>

run_gapup_task(gainers) ==
    /\ ran' = "gapup" /\ fetched' = {"screener"} /\ input' = gainers
    /\ failed' = IF gainers = <<>> THEN {"screener"} ELSE {}
    /\ outbox' = IF gainers = <<>> THEN <<>> ELSE format_gap_up_alerts(gainers)
    /\ LET listed == IF gainers = <<>> \/ format_gap_up_alerts(gainers) = <<>> THEN {}
                     ELSE Listed(format_gap_up_alerts(gainers)[1])
       IN  /\ gapReported' = gapReported \cup listed
           /\ gapRelisted' = listed \cap gapReported
    /\ UNCHANGED <<DataVars, MainHist, OptHist>>

\* ----------------------------------------------------------- scheduling loop
Intervals ==
    [main |-> MAIN_SCAN_INTERVAL_SECONDS, top10 |-> TOP10_INTERVAL_SECONDS,
     unusual |-> UNUSUAL_OPTIONS_INTERVAL_SECONDS, watchlist |-> WATCHLIST_INTERVAL_SECONDS,
     status |-> MARKET_STATUS_INTERVAL_SECONDS, darkpool |-> DARK_POOL_INTERVAL_SECONDS,
     gapup |-> GAPUP_INTERVAL_SECONDS]

LastRun ==
    [main |-> last_main_scan, top10 |-> last_top10, unusual |-> last_unusual,
     watchlist |-> last_watchlist, status |-> last_market_status,
     darkpool |-> last_dark_pool, gapup |-> last_gapup]

\* (now_est - last).total_seconds() >= interval
Due(task) == now - LastRun[task] >= Intervals[task]

\* What the scheduler specification feeds the tasks: no data, a record that
\* meets every rule of the main scan, a report record with and without a
\* price.
SchedMainGainers == {<<>>, <<AllRules("AAA")>>}
SchedQuotes == {<<>>, <<Quote(<<"AAA">>, <<10000>>, <<30>>, Absent)>>}
SchedReportGainers ==
    {<<>>,
     <<Stock(<<"AAA">>, <<50>>, <<2000>>, <<1000>>, Absent, Absent, <<"REGULAR">>,
             <<1000>>, <<900>>)>>,
     <<Stock(<<"AAA">>, <<50>>, <<2000>>, <<1000>>, Absent, Absent, <<"REGULAR">>,
             Absent, <<900>>)>>}
SchedGapGainers == {g \in SchedReportGainers : ~Top10Raises(g)}
SchedOptionLists == {<<>>, <<Option("C1", Field("num", 30), Field("str", 3000))>>}

\* A step of the loop that runs no task.
NoTask ==
    /\ ran' = "none" /\ fetched' = {} /\ failed' = {} /\ input' = <<>> /\ outbox' = <<>>
    /\ UNCHANGED <<DataVars, MainHist, OptHist, GapHist>>

\* send_telegram_message posts only with both messaging settings.
HasCredentials == ~Unset(env.TELEGRAM_BOT_TOKEN) /\ ~Unset(env.TELEGRAM_CHAT_ID)

\* The messages of the last step that were posted to the messaging endpoint.
Posted == IF HasCredentials THEN outbox ELSE <<>>

\* The messages of a sequence at the positions from i on that are not in bad.
RECURSIVE Without(_, _, _)
Without(out, bad, i) ==
    IF i > Len(out) THEN <<>>
    ELSE (IF i \in bad THEN <<>> ELSE <<out[i]>>) \o Without(out, bad, i + 1)

\* The messages of the last step that the messaging endpoint accepted: a
\* post that is answered with another status than 200, or that raises, is
\* logged and the message is gone.
Delivered == Without(Posted, lost, 1)

\* Variant: the entrypoint does not look at the data-API key.
Startup_nocheck ==
    /\ pc = "start"
    /\ pc' = "tick"
    /\ ran' = "none" /\ fetched' = {} /\ failed' = {} /\ input' = <<>>
    /\ outbox' = IF is_trading_day(now) /\ is_within_trading_window(now)
                    /\ SecondOfDay(now) \div 3600 = 6
                 THEN <<Digest("STARTUP", <<>>)>> ELSE <<>>
    /\ UNCHANGED <<env, lost, now, ticks, last_main_scan, last_top10, last_unusual,
                   last_watchlist, last_market_status, last_dark_pool, last_gapup,
                   ranInTick, DataVars, MainHist, OptHist, GapHist>>

\* The entrypoint before the loop: SystemExit(1) without the data-API key,
\* else the good-morning message when the start falls in the hour 06 of an
\* open day.
Startup ==
    /\ pc = "start"
    /\ IF Unset(env.MBOUM_API_KEY)
       THEN /\ pc' = "exited"
            /\ outbox' = <<>>
       ELSE /\ pc' = "tick"
            /\ outbox' = IF is_trading_day(now) /\ is_within_trading_window(now)
                            /\ SecondOfDay(now) \div 3600 = 6
                         THEN <<Digest("STARTUP", <<>>)>> ELSE <<>>
    /\ ran' = "none" /\ fetched' = {} /\ failed' = {} /\ input' = <<>>
    /\ UNCHANGED <<env, lost, now, ticks, last_main_scan, last_top10, last_unusual,
                   last_watchlist, last_market_status, last_dark_pool, last_gapup,
                   ranInTick, DataVars, MainHist, OptHist, GapHist>>

\* now_est = datetime.now(tz_est) and the market gate: a closed iteration
\* sleeps 5 s and starts over, an open one goes on to the tasks.
Tick ==
    /\ pc = "tick"
    /\ ticks < MaxTicks
    /\ \E d \in Deltas \cup {0} :
          /\ IF ticks = 0 THEN d = 0
             ELSE d >= (IF MarketOpen(now) THEN 1 ELSE 5)
          /\ now' = now + d
    /\ ticks' = ticks + 1
    /\ pc' = IF ~is_trading_day(now') \/ ~is_within_trading_window(now')
             THEN "tick" ELSE "main"
    /\ ranInTick' = {}
    /\ NoTask
    /\ UNCHANGED <<env, lost, last_main_scan, last_top10, last_unusual, last_watchlist,
                   last_market_status, last_dark_pool, last_gapup>>

MainScanStep ==
    /\ pc = "main"
    /\ \/ /\ Due("main")
          /\ last_main_scan' = now
          /\ ranInTick' = ranInTick \cup {"main"}
          /\ \E g \in SchedMainGainers, q \in SchedQuotes : run_main_scanner(g, q)
       \/ /\ ~Due("main")
          /\ NoTask
          /\ UNCHANGED <<last_main_scan, ranInTick>>
    /\ pc' = "top10"
    /\ UNCHANGED <<env, lost, now, ticks, last_top10, last_unusual, last_watchlist,
                   last_market_status, last_dark_pool, last_gapup>>

Top10Step ==
    /\ pc = "top10"
    /\ \/ /\ Due("top10")
          /\ last_top10' = now
          /\ ranInTick' = ranInTick \cup {"top10"}
          /\ \E g \in SchedReportGainers :
                /\ run_top10_task(g)
                /\ pc' = IF Top10Raises(g) THEN "crashed" ELSE "unusual"
       \/ /\ ~Due("top10")
          /\ NoTask
          /\ pc' = "unusual"
          /\ UNCHANGED <<last_top10, ranInTick>>
    /\ UNCHANGED <<env, lost, now, ticks, last_main_scan, last_unusual, last_watchlist,
                   last_market_status, last_dark_pool, last_gapup>>

UnusualStep ==
    /\ pc = "unusual"
    /\ \/ /\ Due("unusual")
          /\ last_unusual' = now
          /\ ranInTick' = ranInTick \cup {"unusual"}
          /\ \E o \in SchedOptionLists : run_unusual_options_task(o)
       \/ /\ ~Due("unusual")
          /\ NoTask
          /\ UNCHANGED <<last_unusual, ranInTick>>
    /\ pc' = "watchlist"
    /\ UNCHANGED <<env, lost, now, ticks, last_main_scan, last_top10, last_watchlist,
                   last_market_status, last_dark_pool, last_gapup>>

WatchlistStep ==
    /\ pc = "watchlist"
    /\ \/ /\ Due("watchlist")
          /\ last_watchlist' = now
          /\ ranInTick' = ranInTick \cup {"watchlist"}
          /\ \E q \in SchedQuotes : run_watchlist_task(q)
       \/ /\ ~Due("watchlist")
          /\ NoTask
          /\ UNCHANGED <<last_watchlist, ranInTick>>
    /\ pc' = "status"
    /\ UNCHANGED <<env, lost, now, ticks, last_main_scan, last_top10, last_unusual,
                   last_market_status, last_dark_pool, last_gapup>>

StatusStep ==
    /\ pc = "status"
    /\ \/ /\ Due("status")
          /\ last_market_status' = now
          /\ ranInTick' = ranInTick \cup {"status"}
          /\ run_market_status_task(now)
       \/ /\ ~Due("status")
          /\ NoTask
          /\ UNCHANGED <<last_market_status, ranInTick>>
    /\ pc' = "darkpool"
    /\ UNCHANGED <<env, lost, now, ticks, last_main_scan, last_top10, last_unusual, last_watchlist,
                   last_dark_pool, last_gapup>>

DarkPoolStep ==
    /\ pc = "darkpool"
    /\ \/ /\ Due("darkpool")
          /\ last_dark_pool' = now
          /\ ranInTick' = ranInTick \cup {"darkpool"}
          /\ \E d \in DarkLists : run_dark_pool_task(d)
       \/ /\ ~Due("darkpool")
          /\ NoTask
          /\ UNCHANGED <<last_dark_pool, ranInTick>>
    /\ pc' = "gapup"
    /\ UNCHANGED <<env, lost, now, ticks, last_main_scan, last_top10, last_unusual, last_watchlist,
                   last_market_status, last_gapup>>

\* The last task of the iteration; then time.sleep(1) and the next reading.
GapUpStep ==
    /\ pc = "gapup"
    /\ \/ /\ Due("gapup")
          /\ last_gapup' = now
          /\ ranInTick' = ranInTick \cup {"gapup"}
          /\ \E g \in SchedGapGainers : run_gapup_task(g)
       \/ /\ ~Due("gapup")
          /\ NoTask
          /\ UNCHANGED <<last_gapup, ranInTick>>
    /\ pc' = "tick"
    /\ UNCHANGED <<env, lost, now, ticks, last_main_scan, last_top10, last_unusual, last_watchlist,
                   last_market_status, last_dark_pool>>

Next ==
    \/ Startup
    \/ Tick
    \/ MainScanStep
    \/ Top10Step
    \/ UnusualStep
    \/ WatchlistStep
    \/ StatusStep
    \/ DarkPoolStep
    \/ GapUpStep

Spec == Init /\ [][Next]_vars

\* ------------------------------------------------ the tasks over every input
\* The tasks run one after the other inside market-open iterations.  The
\* next specifications leave the clock aside and run one family of tasks
\* over every input of its domain: the main scan (SpecScan), and the
\* reports that keep no state (SpecReports).
InitScan ==
    /\ env = AllSet
    /\ now = 0 * 86400 + 10 * 3600
    /\ ticks = 1
    /\ pc = "tasks"
    /\ LastInit
    /\ DataInit

ScanMain ==
    /\ pc = "tasks"
    /\ \E g \in MainGainers, q \in PrePostQuotes : run_main_scanner(g, q)
    /\ UNCHANGED <<env, lost, SchedVars>>

NextScan == ScanMain

SpecScan == InitScan /\ [][NextScan]_vars

\* The main scan over the records at the edges of the volume rules.
ScanVolume ==
    /\ pc = "tasks"
    /\ \E g \in VolumeGainers, q \in PrePostQuotes : run_main_scanner(g, q)
    /\ UNCHANGED <<env, lost, SchedVars>>

NextVolume == ScanVolume

SpecVolume == InitScan /\ [][NextVolume]_vars

ReportTop10 ==
    /\ pc = "tasks"
    /\ \E g \in ReportGainers :
          /\ run_top10_task(g)
          /\ pc' = IF Top10Raises(g) THEN "crashed" ELSE pc
    /\ UNCHANGED <<env, lost, now, ticks, last_main_scan, last_top10, last_unusual, last_watchlist,
                   last_market_status, last_dark_pool, last_gapup, ranInTick>>

ReportUnusual ==
    /\ pc = "tasks"
    /\ \E o \in OptionLists : run_unusual_options_task(o)
    /\ UNCHANGED <<env, lost, SchedVars>>

ReportGapUp ==
    /\ pc = "tasks"
    /\ \E g \in ReportGainers : run_gapup_task(g)
    /\ UNCHANGED <<env, lost, SchedVars>>

NextReports ==
    \/ ReportTop10
    \/ ReportUnusual
    \/ ReportGapUp

SpecReports == InitScan /\ [][NextReports]_vars

\* The main scan and the reports over responses in which records with and
\* without symbol are mixed.
ScanSymbol ==
    /\ pc = "tasks"
    /\ \E g \in SymbolGainers, q \in SymbolQuotes : run_main_scanner(g, q)
    /\ UNCHANGED <<env, lost, SchedVars>>

SymbolTop10 ==
    /\ pc = "tasks"
    /\ \E g \in SymbolGainers :
          /\ run_top10_task(g)
          /\ pc' = IF Top10Raises(g) THEN "crashed" ELSE pc
    /\ UNCHANGED <<env, lost, now, ticks, last_main_scan, last_top10, last_unusual, last_watchlist,
                   last_market_status, last_dark_pool, last_gapup, ranInTick>>

SymbolGapUp ==
    /\ pc = "tasks"
    /\ \E g \in SymbolGainers : run_gapup_task(g)
    /\ UNCHANGED <<env, lost, SchedVars>>

\* The main scan and the watchlist task over their inputs.
WatchScan ==
    /\ pc = "tasks"
    /\ \E g \in WatchGainers, q \in PrePostQuotes : run_main_scanner(g, q)
    /\ UNCHANGED <<env, lost, SchedVars>>

WatchTask ==
    /\ pc = "tasks"
    /\ \E q \in WatchQuotes : run_watchlist_task(q)
    /\ UNCHANGED <<env, lost, SchedVars>>

NextWatch == WatchScan \/ WatchTask

SpecWatch == InitScan /\ [][NextWatch]_vars

\* The main scan with the messaging settings present or missing and with
\* every outcome of each post; in the other specifications every post is
\* answered with status 200.
InitSend ==
    /\ env \in {e \in Environments : ~Unset(e.MBOUM_API_KEY)}
    /\ now = 0 * 86400 + 10 * 3600
    /\ ticks = 1
    /\ pc = "tasks"
    /\ LastInit
    /\ DataInit

SendScan ==
    /\ pc = "tasks"
    /\ \E g \in SendGainers, q \in PrePostQuotes : run_main_scanner(g, q)
    /\ lost' \in IF HasCredentials THEN SUBSET (1..Len(outbox')) ELSE {{}}
    /\ UNCHANGED <<env, SchedVars>>

NextSend == SendScan

SpecSend == InitSend /\ [][NextSend]_vars

NextSymbol ==
    \/ ScanSymbol
    \/ SymbolTop10
    \/ SymbolGapUp

SpecSymbol == InitScan /\ [][NextSymbol]_vars

\* -------------------------------------------------------------------- claims
\* The time of day as a clock shows it, in minutes since midnight.
ClockMinute(t) == SecondOfDay(t) \div 60

\* Outside the market-open window: a weekend, or a time of day before 06:00
\* or after 18:00.
OutsideWindow(t) ==
    \/ Weekday(t) \in {5, 6}
    \/ ClockMinute(t) < 6 * 60
    \/ ClockMinute(t) > 18 * 60

\* C1: in an iteration stamped outside the market-open window no task runs:
\* nothing is fetched, no evaluator is called, nothing is sent, and the dedup
\* tables, the watchlist, the last observed volumes and the last-run stamps
\* stay as they were.
C1_ClosedTickRunsNothing ==
    /\ []((ticks > 0 /\ OutsideWindow(now)) =>
            /\ pc = "tick"
            /\ ran = "none" /\ ranInTick = {} /\ fetched = {} /\ outbox = <<>>)
    /\ [][OutsideWindow(now') =>
            UNCHANGED <<DataVars, fired, last_main_scan, last_top10, last_unusual,
                        last_watchlist, last_market_status, last_dark_pool,
                        last_gapup>>]_vars

\* A closed iteration that follows an open one in which the main scan set
\* dedup flags and the watchlist.
C1_Witness ==
    /\ ticks >= 2 /\ pc = "tick" /\ OutsideWindow(now)
    /\ last_main_scan # DatetimeMin
    /\ last_halt_alert # {} /\ watchlist["AAA"] # "none"

OneShotRules == {"BID_EXACT", "BID_HIGH", "UNUSUAL", "HALT"}

\* C2: each of the rules bid-exact, bid-high-value, unusual-activity and
\* trading-halt sends at most one alert per symbol over any sequence of
\* main scans.
C2_OneShotRulesFireOnce ==
    \A k \in OneShotRules : \A s \in Symbols : fired[k][s] <= 1

\* The last scan saw AAA meet the bid-exact, high-value, unusual-activity
\* and halt conditions again, after each rule had fired for it, and sent no
\* alert of these kinds.
C2_Witness ==
    /\ ran = "main"
    /\ \A k \in OneShotRules : fired[k]["AAA"] = 1 /\ Count(outbox, k, "AAA") = 0
    /\ \E i \in ObsIdx(input, "AAA") :
          /\ BidExactGated(input[i])
          /\ input[i].marketState = <<"HALTED">>
          /\ OrDefault(input[i].pct, 0) >= 100

\* C3 as stated: a symbol observed with changePercent 5.0, 5.0, 7.5 in three
\* successive main scans gets exactly two gain alerts.
C3_TwoGainAlerts ==
    \A s \in Symbols : mainTrack[s] = Len(GainScenario) => mainGain[s] = 2

\* C3 as amended: the main scan sends no gain alert (a change of at least
\* 5% only opens the bid-pattern check): a symbol observed with 5.0, 5.0,
\* 7.5 in three successive main scans gets none.
C3_NoGainAlert ==
    \A s \in Symbols : mainTrack[s] = Len(GainScenario) => mainGain[s] = 0

\* The third scan of the scenario has just run.
C3_Witness ==
    /\ ran = "main" /\ mainTrack["AAA"] = Len(GainScenario)
    /\ \E i \in ObsIdx(input, "AAA") : input[i].pct = <<75>>

\* A record whose volume-spike ratio can be taken, and the comparison of
\* its ratio with that of the figures <<vol, avg3m>> of an alert.
HasRatio(r) == ~Falsy(r.vol) /\ ~Falsy(r.avg3m) /\ r.avg3m[1] > 0
RatioAbove(r, at) == r.vol[1] * at[2] > at[1] * r.avg3m[1]

\* C4 as stated: once a volume-spike alert was sent for a symbol at ratio r,
\* a later scan that observes a greater ratio sends a new alert and one that
\* observes a ratio <= r sends none.
C4_ReAlertOnGreaterRatio ==
    [][\A s \in Symbols :
         (ran' = "main" /\ spikeAt[s] # Absent) =>
            \A i \in ObsIdx(input', s) :
               HasRatio(input'[i]) =>
                  IF RatioAbove(input'[i], spikeAt[s])
                  THEN Count(outbox', "VOLUME_SPIKE", s) >= 1
                  ELSE Count(outbox', "VOLUME_SPIKE", s) = 0]_vars

\* C4 as amended: once a volume-spike alert was sent for a symbol, no later
\* scan sends another for it, whatever ratio it observes.
C4_NoReAlert ==
    [][\A s \in Symbols :
         (ran' = "main" /\ spikeAt[s] # Absent) =>
            Count(outbox', "VOLUME_SPIKE", s) = 0]_vars

\* The last scan observed a ratio of 3.0 for AAA after its alert at 2.0 and
\* sent no volume-spike alert.
C4_Witness ==
    /\ ran = "main" /\ spikeAt["AAA"] = <<2000, 1000>>
    /\ \E i \in ObsIdx(input, "AAA") :
          HasRatio(input[i]) /\ RatioAbove(input[i], spikeAt["AAA"])
    /\ Count(outbox, "VOLUME_SPIKE", "AAA") = 0

\* A contract that qualifies: volumeOpenInterestRatio >= 30.0 and
\* volume >= 3000.
QualifiesStated(opt) ==
    /\ opt.volumeOpenInterestRatio.form \in {"num", "str"}
    /\ opt.volumeOpenInterestRatio.v >= 30
    /\ opt.volume.form \in {"num", "str"}
    /\ opt.volume.v >= 3000

\* C5 as stated: a contract that one unusual-options notification listed is
\* listed by none of a later run.
C5_ContractListedOnce == relisted = {}

\* C5 as amended: the task keeps no record of what it listed: every run
\* whose fetch returns data sends one notification, which lists the
\* qualifying contracts of the response (the first ten), listed before or
\* not, and says that none was found when none qualifies.
C5_ListsEveryRun ==
    (ran = "unusual" /\ input # <<>>) =>
        /\ Len(outbox) = 1
        /\ LET q == {i \in 1..Len(input) : QualifiesStated(input[i])} IN
           IF q = {} THEN outbox[1].kind = "NO_OPTIONS"
           ELSE /\ outbox[1].kind = "OPTIONS"
                /\ Cardinality(q) <= 10 => Listed(outbox[1]) = {input[i].symbol : i \in q}

\* A run lists a contract that an earlier notification listed.
C5_Witness == ran = "unusual" /\ "C1" \in relisted /\ outbox[1].kind = "OPTIONS"

\* An iteration is over: the loop is back at the top after a market-open
\* iteration, or the process has ended inside one.
IterationOver == (pc = "tick" /\ ticks > 0 /\ MarketOpen(now)) \/ pc = "crashed"

\* C6: a task with interval I runs in the first market-open iteration after
\* the start; after a run stamped t it runs in no iteration stamped before
\* t + I, and it runs in the first market-open iteration stamped >= t + I.
\* So a task runs only when its interval has passed since its last run, and
\* no market-open iteration ends with a task whose interval has passed.
C6_TaskRunsWhenDue ==
    /\ [][\A t \in Tasks : t \in ranInTick' \ ranInTick => Due(t)]_vars
    /\ [](IterationOver => \A t \in Tasks : now - LastRun[t] < Intervals[t])

\* C7 as stated: the first main scan in which a symbol's record has the bid
\* within 0.01 of 199999.00 and bidSize 100 sends a bid-exact alert for the
\* symbol, whatever the other fields are.
C7_FirstExactBidAlerts ==
    [][\A s \in Symbols :
         (ran' = "main" /\ s \notin seenBid
          /\ \E i \in ObsIdx(input', s) : BidExactStated(input'[i]))
         => Count(outbox', "BID_EXACT", s) >= 1]_vars

\* C7 as amended: the first main scan in which a symbol's record has a
\* changePercent of at least 5.0, the bid less than 0.01 away from 199999.00
\* and bidSize 100 sends a bid-exact alert for the symbol, whatever the other
\* fields are.
C7_FirstGatedExactBidAlerts ==
    [][\A s \in Symbols :
         (ran' = "main" /\ s \notin seenBidGated
          /\ \E i \in ObsIdx(input', s) : BidExactGated(input'[i]))
         => Count(outbox', "BID_EXACT", s) = 1]_vars

\* The last scan was the first to see AAA with the exact bid under a change
\* of at least 5%, and sent the alert.
C7_Witness ==
    /\ ran = "main" /\ fired["BID_EXACT"]["AAA"] = 1
    /\ Count(outbox, "BID_EXACT", "AAA") = 1
    /\ \E i \in ObsIdx(input, "AAA") :
          BidExactGated(input[i]) /\ input[i].bid = <<199999009>>

\* C8: a symbol for which the trading-halt alert has been sent is in the
\* watchlist when that evaluation ends, and no step ever takes a symbol out
\* of the watchlist.
C8_HaltedStaysWatchlisted ==
    /\ [](\A s \in Symbols :
            (s \in last_halt_alert \/ fired["HALT"][s] > 0) => watchlist[s] # "none")
    /\ [][\A s \in Symbols : watchlist[s] # "none" => watchlist'[s] # "none"]_vars

\* The last scan sent the halt alert for AAA, which met no other rule and
\* was not on the watchlist before.
C8_Witness ==
    /\ ran = "main" /\ Count(outbox, "HALT", "AAA") = 1
    /\ Count(outbox, "VOLUME_SPIKE", "AAA") = 0 /\ Count(outbox, "UNUSUAL", "AAA") = 0
    /\ watchlist["AAA"] = "halt"

\* The days of the modelled week that are holidays: the Thursday (as in the
\* week of Monday 2026-11-23, whose Thursday is Thanksgiving Day).
HolidayDays == {3}

\* C9: the market-open predicate answers closed for every timestamp of a
\* Saturday, of a Sunday and of a holiday, whatever the time of day, so that
\* no task runs on such a day.
C9_WeekendAndHolidayClosed ==
    (ticks > 0 /\ Weekday(now) \in {5, 6} \cup HolidayDays) =>
        /\ ~MarketOpen(now)
        /\ pc = "tick" /\ ranInTick = {} /\ ran = "none"

\* C10: on a weekday the trading-window predicate is true exactly from 06:00
\* to 18:00, both included: true at 06:00 and at 18:00, false at 05:59 and
\* at 18:01.  On a weekday the loop goes on to its tasks exactly when the
\* reading of the clock shows one of these minutes.
C10_WindowInclusive ==
    /\ [](/\ is_within_trading_window(6 * 3600)
          /\ is_within_trading_window(18 * 3600)
          /\ ~is_within_trading_window(5 * 3600 + 59 * 60)
          /\ ~is_within_trading_window(18 * 3600 + 60))
    /\ [](Weekday(now) < 5 =>
            (is_within_trading_window(now)
                <=> (6 * 60 <= ClockMinute(now) /\ ClockMinute(now) <= 18 * 60)))
    /\ [][(ticks' = ticks + 1 /\ Weekday(now') < 5) =>
            (pc' = "main"
                <=> (6 * 60 <= ClockMinute(now') /\ ClockMinute(now') <= 18 * 60))]_vars

\* An iteration stamped in the minute 18:00 of a weekday has passed the gate.
C10_Witness ==
    /\ Weekday(now) < 5 /\ ClockMinute(now) = 18 * 60
    /\ ticks > 0 /\ pc = "main"

\* No task has run, no evaluator has fired and no table has an entry.
NothingRan ==
    /\ ticks = 0 /\ ran = "none" /\ ranInTick = {} /\ fetched = {} /\ outbox = <<>>
    /\ last_volume_spike_alert = {} /\ last_bid_exact_alert = {}
    /\ last_bid_highvalue_alert = {} /\ last_unusual_activity_alert = {}
    /\ last_halt_alert = {}
    /\ \A s \in Symbols : watchlist[s] = "none" /\ last_watchlist_volume[s] = Absent

\* C11 as stated: with the data-API key, the bot token or the destination id
\* absent, startup aborts before any task runs: no evaluator executes and no
\* dedup flag is set.
C11_AbortsWithoutAnySetting ==
    (\/ Unset(env.MBOUM_API_KEY)
     \/ Unset(env.TELEGRAM_BOT_TOKEN)
     \/ Unset(env.TELEGRAM_CHAT_ID))
        => (pc \in {"start", "exited"} /\ NothingRan)

\* C11 as amended: with the data-API key absent (unset or empty), startup
\* aborts before any task runs: no evaluator executes and no dedup flag is
\* set.  (The bot token and the destination id are not looked at on startup.)
C11_AbortsWithoutApiKey ==
    Unset(env.MBOUM_API_KEY) => (pc \in {"start", "exited"} /\ NothingRan)

\* Startup has ended the process for want of the data-API key.
C11_Witness == pc = "exited" /\ env.MBOUM_API_KEY = Absent

\* Where the loop stands after a task.
PcAfter ==
    [main |-> "top10", top10 |-> "unusual", unusual |-> "watchlist",
     watchlist |-> "status", status |-> "darkpool", darkpool |-> "gapup",
     gapup |-> "tick"]

\* The last step's fetch of the quotes for the main scan's premarket and
\* after-hours digest failed, after the screener had returned records.
QuotesOfScanFailed == ran = "main" /\ failed = {"quote"}

\* C12 as stated: a task invocation one of whose fetches fails sends no
\* notification and leaves the dedup tables, the watchlist and the last
\* observed volumes as they were; the loop goes on to the next task.
C12_FailedFetchSkipsTask ==
    [][failed' # {} =>
          /\ outbox' = <<>>
          /\ UNCHANGED DataVars
          /\ pc' = PcAfter[ran']]_vars

\* C12 as amended: a task invocation whose first fetch fails makes no other
\* request, sends no notification and leaves the dedup tables, the watchlist
\* and the last observed volumes as they were; when the quotes fetch of the
\* main scan fails after its screener fetch succeeded, the alerts and table
\* entries of the screener records stand and only the premarket and
\* after-hours digest is missing.  Either way the loop goes on to the next
\* task and the task is not due again before its interval has passed.
C12_FailedFirstFetchSkipsTask ==
    [][failed' # {} =>
          /\ ~QuotesOfScanFailed' =>
                /\ fetched' = failed'
                /\ outbox' = <<>>
                /\ UNCHANGED DataVars
          /\ QuotesOfScanFailed' =>
                /\ \A i \in 1..Len(outbox') : outbox'[i].kind # "PREPOST"
                /\ outbox' = scan_loop(Tables, input').out
          /\ pc' = PcAfter[ran']
          /\ LastRun'[ran'] = now]_vars

\* The screener fetch of a main scan failed in a state with dedup flags and
\* a watchlist entry, which the scan left alone.
C12_Witness ==
    /\ ran = "main" /\ failed = {"screener"} /\ outbox = <<>>
    /\ last_halt_alert # {} /\ watchlist["AAA"] # "none"

\* C13: a record with a missing field in a successful response never aborts
\* the batch: the task invocation completes, and the top-10 report of a
\* non-empty response is sent with a row for each of its (first ten) records.
C13_MissingFieldNeverAborts ==
    /\ pc # "crashed"
    /\ (ran = "top10" /\ input # <<>>) =>
          /\ Len(outbox) = 1
          /\ Len(outbox[1].list) = Min(Len(input), 10)

\* Where the loop stands while it runs.
LoopPositions == {"tick"} \cup Tasks

\* C14: a task invocation that ends, by success or by failure, leaves the
\* task idle and the loop at the next task, and no step takes the process
\* out of the loop.
C14_LoopNeverStops ==
    [][/\ pc \in LoopPositions => pc' \in LoopPositions
       /\ ran' \in Tasks => pc' = PcAfter[ran']]_vars

\* A record for which the volume-spike rule has no ratio to judge: volume
\* absent or zero, or average volume absent, zero or negative.
NoSpikeRatio(r) ==
    \/ r.vol = Absent \/ r.vol[1] = 0
    \/ r.avg3m = Absent \/ r.avg3m[1] <= 0

\* C15: a main scan all of whose records of a symbol have an average volume
\* that is zero, negative or absent, or a volume that is zero or absent, sends
\* no volume-spike alert for the symbol and leaves its volume-spike flag as
\* it was, and the scan completes; so it is with volume 0 and average 0.
C15_NoSpikeWithoutRatio ==
    [][\A s \in Symbols :
         (/\ ran' = "main"
          /\ ObsIdx(input', s) # {}
          /\ \A i \in ObsIdx(input', s) : NoSpikeRatio(input'[i]))
         => /\ Count(outbox', "VOLUME_SPIKE", s) = 0
            /\ (s \in last_volume_spike_alert') = (s \in last_volume_spike_alert)
            /\ pc' = pc]_vars

\* The last scan saw AAA with volume 0 and average volume 0 only, sent no
\* volume-spike alert and set no flag.
C15_Witness ==
    /\ ran = "main" /\ ObsIdx(input, "AAA") # {}
    /\ \A i \in ObsIdx(input, "AAA") : input[i].vol = <<0>> /\ input[i].avg3m = <<0>>
    /\ Count(outbox, "VOLUME_SPIKE", "AAA") = 0
    /\ "AAA" \notin last_volume_spike_alert

\* The records of a response that the gap-up rule is stated to list: a
\* change of at least 5.0% with the price and the previous close present.
GapUpStated(recs) ==
    {i \in 1..Len(recs) :
        /\ OrDefault(recs[i].pct, 0) >= 50
        /\ recs[i].price # Absent /\ recs[i].prevClose # Absent}

\* C16: every run of the gap-up task whose response holds a record with a
\* change of at least 5.0% (price and previous close present) sends one
\* digest with a row for every such record, listed by an earlier digest or
\* not, and a run without such a record sends none; the task changes no
\* dedup table, watchlist entry or observed volume.
C16_GapUpDigestStateless ==
    /\ [](ran = "gapup" =>
            IF GapUpStated(input) = {} THEN outbox = <<>>
            ELSE /\ Len(outbox) = 1 /\ outbox[1].kind = "GAPUP"
                 /\ Len(outbox[1].list) = Cardinality(GapUpStated(input))
                 /\ Listed(outbox[1]) = {SymOrNA(input[i]) : i \in GapUpStated(input)})
    /\ [][ran' = "gapup" => UNCHANGED DataVars]_vars

\* The last digest lists AAA, which an earlier digest listed.
C16_Witness ==
    /\ ran = "gapup" /\ "AAA" \in gapRelisted
    /\ Len(outbox) = 1 /\ "AAA" \in Listed(outbox[1])

\* The records of a batch that carry a symbol, in their order.
RECURSIVE WithSymbol(_)
WithSymbol(recs) ==
    IF recs = <<>> THEN <<>>
    ELSE (IF Head(recs).symbol = Absent THEN <<>> ELSE <<Head(recs)>>)
         \o WithSymbol(Tail(recs))

\* C17 as amended: a record without symbol triggers no rule and changes no
\* dedup or watchlist state in the main scan: the alerts and the tables of a
\* scan are those of its batch without such records, and a batch of such
\* records only sends nothing, fetches no quotes and changes nothing.  (The
\* reports do list such a record, as "N/A".)
C17_MainScanDropsNoSymbol ==
    [][(ran' = "main" /\ input' # <<>>) =>
          LET st == scan_loop(Tables, WithSymbol(input'))
          IN  /\ last_volume_spike_alert' = st.spike
              /\ last_bid_exact_alert' = st.exact
              /\ last_bid_highvalue_alert' = st.high
              /\ last_unusual_activity_alert' = st.unusual
              /\ last_halt_alert' = st.halt
              /\ watchlist' = st.wl
              /\ SubSeq(outbox', 1, Len(st.out)) = st.out
              /\ \A i \in (Len(st.out) + 1)..Len(outbox') : outbox'[i].kind = "PREPOST"
              /\ WithSymbol(input') = <<>> =>
                    outbox' = <<>> /\ fetched' = {"screener"}]_vars

\* No report or digest has a row for a record without symbol.
NoRowWithoutSymbol ==
    \A i \in 1..Len(outbox) :
        outbox[i].kind \in {"TOP10", "GAPUP", "PREPOST"} => "N/A" \notin Listed(outbox[i])

\* C17 as stated: a record without symbol triggers no rule and changes no
\* dedup or watchlist state in the main scan, and no notification of any
\* task has a row for it.
C17_NoSymbolDropped == C17_MainScanDropsNoSymbol /\ []NoRowWithoutSymbol

\* The last scan read a record without symbol that meets every rule, next
\* to no other record, and sent and changed nothing.
C17_Witness ==
    /\ ran = "main" /\ input # <<>> /\ WithSymbol(input) = <<>>
    /\ outbox = <<>> /\ last_volume_spike_alert = {} /\ last_halt_alert = {}

\* A record whose change is below 10.0% (or absent) and whose average volume
\* is zero or absent.
NoUnusualRatio(r) ==
    /\ OrDefault(r.pct, 0) < 100
    /\ (r.avg3m = Absent \/ r.avg3m[1] = 0)

\* C18: a main scan all of whose records of a symbol have a change below
\* 10.0% and an average volume that is zero or absent sends no
\* unusual-activity alert for the symbol and leaves its unusual-activity flag
\* as it was, whatever the volume.
C18_NoUnusualWithoutAverage ==
    [][\A s \in Symbols :
         (/\ ran' = "main"
          /\ ObsIdx(input', s) # {}
          /\ \A i \in ObsIdx(input', s) : NoUnusualRatio(input'[i]))
         => /\ Count(outbox', "UNUSUAL", s) = 0
            /\ (s \in last_unusual_activity_alert') = (s \in last_unusual_activity_alert)]_vars

\* C19 as stated: every watchlisted symbol has its halt flag or its
\* unusual-activity flag set.
C19_WatchlistedByHaltOrUnusual ==
    \A s \in Symbols :
        watchlist[s] # "none"
        => (s \in last_halt_alert \/ s \in last_unusual_activity_alert)

\* C19: every watchlisted symbol has its halt flag, its unusual-activity flag
\* or its volume-spike flag set, and a symbol enters the watchlist only in a
\* main scan that sends a trading-halt, unusual-activity or volume-spike
\* alert for it; bid-match alerts alone do not watchlist a symbol.
C19_WatchlistedByHaltUnusualOrSpike ==
    /\ [](\A s \in Symbols :
            watchlist[s] # "none"
            => \/ s \in last_halt_alert
               \/ s \in last_unusual_activity_alert
               \/ s \in last_volume_spike_alert)
    /\ [][\A s \in Symbols :
            (watchlist[s] = "none" /\ watchlist'[s] # "none")
            => /\ ran' = "main"
               /\ \/ Count(outbox', "HALT", s) > 0
                  \/ Count(outbox', "UNUSUAL", s) > 0
                  \/ Count(outbox', "VOLUME_SPIKE", s) > 0]_vars

\* AAA is on the watchlist with its volume-spike flag set and neither its
\* halt flag nor its unusual-activity flag.
C19_Witness ==
    /\ watchlist["AAA"] # "none"
    /\ "AAA" \in last_volume_spike_alert
    /\ "AAA" \notin last_halt_alert
    /\ "AAA" \notin last_unusual_activity_alert

\* The positions of the quotes of a response that carry symbol s and a
\* volume.
VolIdx(quotes, s) ==
    {i \in 1..Len(quotes) : quotes[i].symbol = <<s>> /\ quotes[i].vol # Absent}

\* The observation before the quote at position i: the volume of the quote
\* of s that precedes it in the response, or else the stored one.
PrevObs(quotes, s, i) ==
    LET before == {j \in VolIdx(quotes, s) : j < i}
    IN  IF before = {} THEN last_watchlist_volume[s]
        ELSE quotes[CHOOSE j \in before : \A k \in before : k <= j].vol

\* The quotes of s for which a large-sale alert is stated: a previous
\* observation exists and the volume exceeds it by at least 10000.
LargeSaleStated(quotes, s) ==
    {i \in VolIdx(quotes, s) :
        /\ PrevObs(quotes, s, i) # Absent
        /\ quotes[i].vol[1] - PrevObs(quotes, s, i)[1] >= 10000}

\* C20: after every run of the watchlist task the stored volume of a symbol
\* is the volume of its last quote that carries one (unchanged when the
\* response has none), alert or no alert; the task sends one large-sale alert
\* per quote whose volume exceeds the previous observation by at least 10000
\* and no other; a symbol never observed before, quoted once, gets no alert.
C20_RollingVolumeAndLargeSale ==
    [][ran' = "watchlist"
       => \A s \in Symbols :
            /\ VolIdx(input', s) = {}
               => last_watchlist_volume'[s] = last_watchlist_volume[s]
            /\ VolIdx(input', s) # {}
               => last_watchlist_volume'[s] =
                    input'[CHOOSE j \in VolIdx(input', s) :
                              \A k \in VolIdx(input', s) : k <= j].vol
            /\ Count(outbox', "LARGE_SALE", s) = Cardinality(LargeSaleStated(input', s))
            /\ (last_watchlist_volume[s] = Absent /\ Cardinality(VolIdx(input', s)) <= 1)
               => Count(outbox', "LARGE_SALE", s) = 0
            /\ Len(outbox') = Cardinality(LargeSaleStated(input', "AAA"))
                              + Cardinality(LargeSaleStated(input', "BBB"))]_vars

\* The last run of the watchlist task saw AAA at 1000 and then at 11000,
\* sent one large-sale alert and stored 11000.
C20_Witness ==
    /\ ran = "watchlist" /\ Len(input) = 2
    /\ input[1] = Quote(<<"AAA">>, <<1000>>, Absent, Absent)
    /\ input[2] = Quote(<<"AAA">>, <<11000>>, Absent, Absent)
    /\ Count(outbox, "LARGE_SALE", "AAA") = 1
    /\ last_watchlist_volume["AAA"] = <<11000>>

\* The dedup table of a rule.
FlagOf(k) ==
    CASE k = "VOLUME_SPIKE" -> last_volume_spike_alert
      [] k = "BID_EXACT" -> last_bid_exact_alert
      [] k = "BID_HIGH" -> last_bid_highvalue_alert
      [] k = "UNUSUAL" -> last_unusual_activity_alert
      [] k = "HALT" -> last_halt_alert

\* C21: a main scan that hands a rule's alert for a symbol to the sender
\* finds the symbol's flag unset and leaves it set, whether the post
\* succeeds, fails or is skipped for want of credentials; a set flag stays
\* set and no later scan hands that alert to the sender; so each alert is
\* handed over at most once, and delivered only in the scan that handed it
\* over, if at all.
C21_FlagSetBeforeSend ==
    /\ [](\A k \in Rules : \A s \in Symbols :
            /\ fired[k][s] <= 1
            /\ (fired[k][s] = 1) = (s \in FlagOf(k))
            /\ Count(Delivered, k, s) <= Count(outbox, k, s))
    /\ [][\A k \in Rules : \A s \in Symbols :
            /\ (ran' = "main" /\ Count(outbox', k, s) > 0)
               => (s \notin FlagOf(k) /\ s \in FlagOf(k)')
            /\ s \in FlagOf(k)
               => (s \in FlagOf(k)' /\ (ran' = "main" => Count(outbox', k, s) = 0))]_vars

\* The last scan decided the trading-halt alert for BBB and the post failed:
\* the flag is set and the alert was not delivered.
C21_Witness ==
    /\ ran = "main" /\ HasCredentials
    /\ Count(outbox, "HALT", "BBB") = 1
    /\ Count(Delivered, "HALT", "BBB") = 0
    /\ "BBB" \in last_halt_alert

\* C22: every market-status message handed to the sender reports OPEN, and
\* the status task runs only in an iteration whose reading of the clock
\* passed the market gate, on that same reading.
C22_StatusAlwaysOpen ==
    /\ \A i \in 1..Len(outbox) :
          outbox[i].kind = "STATUS" => outbox[i].list = <<<<"status", "OPEN">>>>
    /\ ran = "status"
       => /\ MarketOpen(now)
          /\ last_market_status = now
          /\ outbox = <<Digest("STATUS", <<<<"status", "OPEN">>>>)>>

\* The status task ran in the closing minute, 18:00, and reported OPEN.
C22_Witness ==
    /\ ran = "status"
    /\ SecondOfDay(now) \div 60 = 18 * 60
    /\ outbox = <<Digest("STATUS", <<<<"status", "OPEN">>>>)>>

====
